---- MODULE Spec2Model ----
(***************************************************************************)
(* Model of src/src/App.js: the App component of the Navae driver          *)
(* assistant.  The state is the component's React state (model,            *)
(* detecting, alerts, lastAlerts, facingMode), the browser timers it       *)
(* creates (the polling interval, the alert-expiry timeouts), the          *)
(* model.detect promises in flight, the canvas, and whether the browser     *)
(* has speech synthesis.                                                   *)
(*                                                                         *)
(* Closures.  setInterval(detect, 100) is executed by the effect with      *)
(* dependencies [detecting, model]; the interval therefore keeps calling   *)
(* the detect function of the render in which the effect last ran, whose   *)
(* triggerAlert reads the lastAlerts value of that same render.  The       *)
(* interval record and every detect call in flight carry this captured     *)
(* value as the field env.  The functional updaters setAlerts(prev => ..)  *)
(* and setLastAlerts(prev => ..) act on the current state.                 *)
(*                                                                         *)
(* Time.  now is Date.now() in milliseconds.  The clock is observed every  *)
(* TimeStep ms and never passes the due time of an alert-expiry timeout;   *)
(* an interval callback that has become due runs before the clock moves    *)
(* on.  Scores are in hundredths (score * 100).                            *)
(***************************************************************************)
EXTENDS Integers, Sequences, FiniteSets, TLC

VARIABLES
    now,         \* Date.now()
    loadState,   \* loadModel: "pending", "loaded" or "failed"
    model,       \* useState(null): NoModel or the loaded model
    detecting,   \* useState(false)
    alerts,      \* useState([]): sequence of [id, message]
    lastAlerts,  \* useState({}): class -> time of its last alert
    facingMode,  \* useState('environment')
    mounted,     \* the component is mounted
    interval,    \* the setInterval timer of the detection-loop effect
    inflight,    \* model.detect calls awaiting their result
    timers,      \* pending setTimeout callbacks of triggerAlert
    canvas,      \* what the last draw left on the canvas
    speechSynthesis,  \* 'speechSynthesis' in window
    ev           \* what the last step did (observation only)

vars == <<now, loadState, model, detecting, alerts, lastAlerts, facingMode,
          mounted, interval, inflight, timers, canvas, speechSynthesis, ev>>

----------------------------------------------------------------------------
(* Bounds *)

StartTime == 10000  \* Date.now() when the page is opened
TimeStep == 1000    \* the clock is observed every TimeStep ms
MaxElapsed == 4000  \* the run is followed for MaxElapsed ms
MaxInFlight == 2    \* most model.detect calls awaiting a result at once
MaxTimers == 4      \* most alert-expiry timeouts pending at once

----------------------------------------------------------------------------
(* Program constants *)

cooldownPeriod == 3000
DisplayDuration == 2000
PollInterval == 100
ScoreThreshold == 70

HazardClasses == {"person", "car", "truck", "bus", "bicycle", "motorcycle"}

NoModel == "null"
LoadedModel == "cocossd"
NoInterval == [live |-> FALSE]

\* one detection of model.detect: class and score in hundredths
Pred(class, score) == [class |-> class, score |-> score]

\* the detection lists model.detect resolves with
PredLists == { <<>>,
               <<Pred("car", 90)>>,
               <<Pred("car", 70)>>,
               <<Pred("dog", 95)>>,
               <<Pred("car", 90), Pred("car", 90)>>,
               <<Pred("car", 90), Pred("person", 90)>> }

EmptyTable == [c \in {} |-> 0]

----------------------------------------------------------------------------
(* Pure helpers *)

Min(a, b) == IF a < b THEN a ELSE b

\* objectType.toUpperCase()
ToUpperCase(c) ==
    CASE c = "person" -> "PERSON"
      [] c = "car" -> "CAR"
      [] c = "truck" -> "TRUCK"
      [] c = "bus" -> "BUS"
      [] c = "bicycle" -> "BICYCLE"
      [] c = "motorcycle" -> "MOTORCYCLE"
      [] OTHER -> "OTHER"

\* [...].includes(pred.class)
IsHazard(c) == c \in HazardClasses

\* lastAlerts[objectType] || 0
LastAlertTime(table, objectType) ==
    IF objectType \in DOMAIN table /\ table[objectType] # 0
    THEN table[objectType] ELSE 0

\* a cooldown shared by all classes: the time of the latest alert of any
CooldownElapsedGlobal(table, objectType, t) ==
    \A c \in DOMAIN table \cup {objectType} :
        t - LastAlertTime(table, c) > cooldownPeriod

\* now - lastAlertTime > cooldownPeriod
CooldownElapsed(table, objectType, t) ==
    t - LastAlertTime(table, objectType) > cooldownPeriod

\* hazard.score > 0.7
HighConfidence(p) == p.score > ScoreThreshold

\* { id: now, message: alertMessage }
NewAlert(objectType, t) ==
    [id |-> t, message |-> <<ToUpperCase(objectType), "DETECTED">>]

\* prev => ({ ...prev, [objectType]: now })
SetLastAlert(prev, objectType, t) ==
    [c \in DOMAIN prev \cup {objectType} |->
        IF c = objectType THEN t ELSE prev[c]]

\* a filter whose test never keeps an alert
RemoveAlertClearsAll(prev, id) == SelectSeq(prev, LAMBDA a : FALSE)

\* prev => prev.filter(alert => alert.id !== newAlert.id)
RemoveAlert(prev, id) == SelectSeq(prev, LAMBDA a : a.id # id)

\* setTimeout(..., 2000)
ExpiryTimer(id, t) == [id |-> id, due |-> t + DisplayDuration]

\* red for hazards, green for others
Colour(c) == IF IsHazard(c) THEN "#ff0000" ELSE "#00ff00"

\* strokeRect and fillText of one prediction
Drawn(p) == [class |-> p.class, label |-> p.score, colour |-> Colour(p.class)]

\* a pass that draws without clearing the canvas first
ClearRectKeepsBoxes(prev) == prev

\* canvas.width = ..; canvas.height = ..; ctx.clearRect(0, 0, width, height)
ClearRect(prev) == <<>>

\* predictions.forEach: one rectangle and label per prediction
Draw(predictions) == [i \in 1..Len(predictions) |-> Drawn(predictions[i])]

\* predictions.filter(pred => [...].includes(pred.class))
Hazards(predictions) == SelectSeq(predictions, LAMBDA p : IsHazard(p.class))

RemoveAt(s, i) == [j \in 1..(Len(s) - 1) |-> IF j < i THEN s[j] ELSE s[j + 1]]

----------------------------------------------------------------------------
(* triggerAlert and the continuation of detect *)

\* new SpeechSynthesisUtterance(`Alert: ${objectType} detected`)
Utterance(objectType) == <<"Alert:", objectType, "detected">>

\* a triggerAlert whose whole body sits inside the speechSynthesis test
triggerAlertNeedsSpeech(st, env, objectType, t, isMounted) ==
    IF st.speech /\ CooldownElapsed(env.lastAlerts, objectType, t)
    THEN [alerts |-> IF isMounted
                     THEN Append(st.alerts, NewAlert(objectType, t))
                     ELSE st.alerts,
          lastAlerts |-> IF isMounted
                         THEN SetLastAlert(st.lastAlerts, objectType, t)
                         ELSE st.lastAlerts,
          timers |-> Append(st.timers, ExpiryTimer(NewAlert(objectType, t).id, t)),
          created |-> IF isMounted THEN Append(st.created, objectType)
                      ELSE st.created,
          speech |-> st.speech,
          spoken |-> Append(st.spoken, Utterance(objectType))]
    ELSE st

\* The state a detection pass writes: the alert list, the cooldown table,
\* the expiry timeouts, the classes it created an alert for, and what it
\* spoke (st.speech: 'speechSynthesis' in window).
\* triggerAlert(objectType), called with the lastAlerts value env that its
\* closure captured, at time t.  setAlerts and setLastAlerts do nothing once
\* the component is unmounted; setTimeout is called all the same.
triggerAlert(st, env, objectType, t, isMounted) ==
    IF CooldownElapsed(env.lastAlerts, objectType, t)
    THEN [alerts |-> IF isMounted
                     THEN Append(st.alerts, NewAlert(objectType, t))
                     ELSE st.alerts,
          lastAlerts |-> IF isMounted
                         THEN SetLastAlert(st.lastAlerts, objectType, t)
                         ELSE st.lastAlerts,
          timers |-> Append(st.timers, ExpiryTimer(NewAlert(objectType, t).id, t)),
          created |-> IF isMounted THEN Append(st.created, objectType)
                      ELSE st.created,
          speech |-> st.speech,
          spoken |-> IF st.speech
                     THEN Append(st.spoken, Utterance(objectType))
                     ELSE st.spoken]
    ELSE st

\* hazards.forEach(hazard => { if (hazard.score > 0.7) triggerAlert(..) })
RECURSIVE AlertHazards(_, _, _, _, _)
AlertHazards(st, env, hazards, t, isMounted) ==
    IF hazards = <<>> THEN st
    ELSE AlertHazards(
            IF HighConfidence(Head(hazards))
            THEN triggerAlert(st, env, Head(hazards).class, t, isMounted)
            ELSE st,
            env, Tail(hazards), t, isMounted)

\* the part of detect after the await, for the result predictions, in a
\* browser with (speech) or without speech synthesis
DetectPassWith(env, predictions, speech) ==
    AlertHazards([alerts |-> alerts, lastAlerts |-> lastAlerts,
                  timers |-> timers, created |-> <<>>,
                  speech |-> speech, spoken |-> <<>>],
                 env, Hazards(predictions), now, mounted)

\* the part of detect after the await, for the result predictions
DetectPass(env, predictions) ==
    DetectPassWith(env, predictions, speechSynthesis)

\* an effect that returns no cleanup: stopping leaves the interval running
DetectionLoopNoCleanup(old, d, m, table, t) ==
    IF d /\ m # NoModel
    THEN [live |-> TRUE, next |-> t + PollInterval,
          env |-> [lastAlerts |-> table, model |-> m]]
    ELSE old

\* an effect whose condition tests the model only
DetectionLoopIgnoresDetecting(old, d, m, table, t) ==
    IF m # NoModel
    THEN [live |-> TRUE, next |-> t + PollInterval,
          env |-> [lastAlerts |-> table, model |-> m]]
    ELSE NoInterval

\* The detection-loop effect: the cleanup of the previous run clears its
\* interval, then an interval is created if detecting && model.
DetectionLoop(old, d, m, table, t) ==
    IF d /\ m # NoModel
    THEN [live |-> TRUE, next |-> t + PollInterval,
          env |-> [lastAlerts |-> table, model |-> m]]
    ELSE NoInterval

\* a start/stop button without the disabled attribute
StartStopNeverDisabled(m) == FALSE

\* <button onClick={toggleDetection} disabled={!model}>
StartStopDisabled(m) == m = NoModel

\* a guard of detect without the readyState test
CanDetectIgnoresReady(ready, env) == env.model # NoModel

\* the guard of detect: the video is ready and the captured model is set
CanDetect(ready, env) == ready /\ env.model # NoModel

\* a camera toggle that always selects the front camera
FlipFacingToUser(prev) == "user"

\* prev => prev === 'user' ? 'environment' : 'user'
FlipFacing(prev) == IF prev = "user" THEN "environment" ELSE "user"

\* <Webcam mirrored={facingMode === 'user'} videoConstraints={{facingMode}}>
WebcamProps(fm) ==
    [mirrored |-> fm = "user", videoConstraints |-> [facingMode |-> fm]]

Event(kind, predictions, created) ==
    [kind |-> kind, preds |-> predictions, created |-> created,
     spoken |-> <<>>]

PollDue == interval.live /\ now >= interval.next

TimerDue(i) == timers[i].due <= now

DueTimers == { i \in 1..Len(timers) : TimerDue(i) }

RECURSIVE MinOf(_)
MinOf(S) ==
    LET x == CHOOSE y \in S : TRUE
    IN IF S = {x} THEN x ELSE Min(x, MinOf(S \ {x}))

\* the next instant the clock is observed at
NextInstant ==
    IF timers = <<>> THEN now + TimeStep
    ELSE Min(now + TimeStep, MinOf({ timers[i].due : i \in 1..Len(timers) }))

----------------------------------------------------------------------------
(* Initial state: the component has rendered once, loadModel is running *)

Init ==
    /\ now = StartTime
    /\ loadState = "pending"
    /\ model = NoModel
    /\ detecting = FALSE
    /\ alerts = <<>>
    /\ lastAlerts = EmptyTable
    /\ facingMode = "environment"
    /\ mounted = TRUE
    /\ interval = NoInterval
    /\ inflight = <<>>
    /\ timers = <<>>
    /\ canvas = <<>>
    /\ speechSynthesis \in BOOLEAN
    /\ ev = Event("init", <<>>, <<>>)

----------------------------------------------------------------------------
(* Actions *)

\* loadModel succeeds: setModel(loadedModel); the effect runs again
LoadModelOk ==
    /\ loadState = "pending"
    /\ loadState' = "loaded"
    /\ model' = IF mounted THEN LoadedModel ELSE model
    /\ interval' = IF mounted
                   THEN DetectionLoop(interval, detecting, model', lastAlerts, now)
                   ELSE interval
    /\ ev' = Event("load", <<>>, <<>>)
    /\ UNCHANGED <<speechSynthesis, now, detecting, alerts, lastAlerts, facingMode, mounted,
                   inflight, timers, canvas>>

\* tf.ready() or cocossd.load() rejects: the catch block only logs
LoadModelFail ==
    /\ loadState = "pending"
    /\ loadState' = "failed"
    /\ ev' = Event("loadfail", <<>>, <<>>)
    /\ UNCHANGED <<speechSynthesis, now, model, detecting, alerts, lastAlerts, facingMode,
                   mounted, interval, inflight, timers, canvas>>

\* click on the start/stop button (disabled while !model), the render it
\* causes and the detection-loop effect of that render
toggleDetection ==
    /\ mounted
    /\ ~StartStopDisabled(model)
    /\ detecting' = ~detecting
    /\ interval' = DetectionLoop(interval, detecting', model, lastAlerts, now)
    /\ ev' = Event("toggle", <<>>, <<>>)
    /\ UNCHANGED <<speechSynthesis, now, loadState, model, alerts, lastAlerts, facingMode,
                   mounted, inflight, timers, canvas>>

\* click on the camera button
toggleCamera ==
    /\ mounted
    /\ facingMode' = FlipFacing(facingMode)
    /\ ev' = Event("camera", <<>>, <<>>)
    /\ UNCHANGED <<speechSynthesis, now, loadState, model, detecting, alerts, lastAlerts,
                   mounted, interval, inflight, timers, canvas>>

\* the component is unmounted: the effect's cleanup clears the interval
Unmount ==
    /\ mounted
    /\ mounted' = FALSE
    /\ interval' = DetectionLoop(interval, FALSE, model, lastAlerts, now)
    /\ ev' = Event("unmount", <<>>, <<>>)
    /\ UNCHANGED <<speechSynthesis, now, loadState, model, detecting, alerts, lastAlerts,
                   facingMode, inflight, timers, canvas>>

\* the interval fires and calls detect, up to its await
PollTick(ready) ==
    /\ PollDue
    /\ Len(inflight) < MaxInFlight
    /\ interval' = [interval EXCEPT !.next = now + PollInterval]
    /\ inflight' = IF CanDetect(ready, interval.env)
                   THEN Append(inflight, interval.env)
                   ELSE inflight
    /\ ev' = Event(IF ready THEN "tick" ELSE "tick-notready", <<>>, <<>>)
    /\ UNCHANGED <<speechSynthesis, now, loadState, model, detecting, alerts, lastAlerts,
                   facingMode, mounted, timers, canvas>>

\* model.detect resolves with predictions: the rest of detect runs
DetectResolve(i, predictions) ==
    /\ i \in 1..Len(inflight)
    /\ LET st == DetectPass(inflight[i], predictions)
       IN /\ Len(st.timers) <= MaxTimers
          /\ alerts' = st.alerts
          /\ lastAlerts' = st.lastAlerts
          /\ timers' = st.timers
          /\ ev' = [Event("pass", predictions, st.created)
                       EXCEPT !.spoken = st.spoken]
    /\ inflight' = RemoveAt(inflight, i)
    \* canvasRef.current is null once unmounted: getContext throws
    /\ canvas' = IF mounted THEN ClearRect(canvas) \o Draw(predictions)
                 ELSE canvas
    /\ UNCHANGED <<speechSynthesis, now, loadState, model, detecting, facingMode, mounted,
                   interval>>

\* a rejection handler that stops the polling loop
DetectRejectStopsLoop(i) ==
    /\ i \in 1..Len(inflight)
    /\ inflight' = RemoveAt(inflight, i)
    /\ interval' = NoInterval
    /\ ev' = Event("reject", <<>>, <<>>)
    /\ UNCHANGED <<speechSynthesis, now, loadState, model, detecting, alerts, lastAlerts,
                   facingMode, mounted, timers, canvas>>

\* model.detect rejects: detect has no try/catch, its promise rejects
DetectReject(i) ==
    /\ i \in 1..Len(inflight)
    /\ inflight' = RemoveAt(inflight, i)
    /\ ev' = Event("reject", <<>>, <<>>)
    /\ UNCHANGED <<speechSynthesis, now, loadState, model, detecting, alerts, lastAlerts,
                   facingMode, mounted, interval, timers, canvas>>

\* an expiry timeout fires (the earliest created among those due)
ExpireAlert ==
    /\ DueTimers # {}
    /\ LET i == MinOf(DueTimers)
       IN /\ alerts' = IF mounted THEN RemoveAlert(alerts, timers[i].id)
                       ELSE alerts
          /\ timers' = RemoveAt(timers, i)
    /\ ev' = Event("expire", <<>>, <<>>)
    /\ UNCHANGED <<speechSynthesis, now, loadState, model, detecting, lastAlerts, facingMode,
                   mounted, interval, inflight, canvas>>

\* time passes: nothing is due
Advance ==
    /\ DueTimers = {}
    /\ ~PollDue
    /\ NextInstant <= StartTime + MaxElapsed
    /\ now' = NextInstant
    /\ ev' = Event("advance", <<>>, <<>>)
    /\ UNCHANGED <<speechSynthesis, loadState, model, detecting, alerts, lastAlerts,
                   facingMode, mounted, interval, inflight, timers, canvas>>

Next ==
    \/ LoadModelOk
    \/ LoadModelFail
    \/ toggleDetection
    \/ toggleCamera
    \/ Unmount
    \/ \E ready \in BOOLEAN : PollTick(ready)
    \/ \E i \in 1..MaxInFlight, predictions \in PredLists :
          DetectResolve(i, predictions)
    \/ \E i \in 1..MaxInFlight : DetectReject(i)
    \/ ExpireAlert
    \/ Advance

Spec == Init /\ [][Next]_vars

----------------------------------------------------------------------------
(* Vocabulary of the properties *)

\* the classes a detection can carry in this model
Classes ==
    HazardClasses \cup
        UNION { { pl[i].class : i \in 1..Len(pl) } : pl \in PredLists }

\* the step just taken ran the continuation of detect on a detection list,
\* in the mounted component
IsPass(e) == e.kind = "pass" /\ mounted

\* the step just taken was the interval calling detect
IsTick(e) == e.kind \in {"tick", "tick-notready"}

\* how many alerts for class X a step created
CreatedCount(e, X) == Cardinality({ i \in 1..Len(e.created) : e.created[i] = X })

CreatedFor(e, X) == CreatedCount(e, X) > 0

\* D contains a hazard detection of X with score > 0.7
Qualifying(D, X) ==
    \E i \in 1..Len(D) :
        D[i].class = X /\ X \in HazardClasses /\ D[i].score > ScoreThreshold

\* the active alerts created at time T
AlertsAt(T) == { i \in 1..Len(alerts) : alerts[i].id = T }

----------------------------------------------------------------------------
(* C1 - C4, C6: the cooldown and the alert ids *)

\* C1: after an alert for class X at time T (lastAlerts[X] = T), no step
\* creates a further alert for X at a time before T + 3000 ms.
C1_NoAlertWithinCooldown ==
    [][\A X \in Classes :
          (CreatedFor(ev', X) /\ X \in DOMAIN lastAlerts)
              => now' - lastAlerts[X] >= cooldownPeriod]_vars

\* C2: a detection pass over list D with cooldown table C at time now
\* creates an alert for X exactly when D holds a hazard detection of X with
\* score > 0.7 and X is absent from C or now - C[X] > 3000.
C2_AlertIffQualifyingAndCooledDown ==
    [][IsPass(ev') =>
          \A X \in Classes :
              CreatedFor(ev', X) <=>
                  /\ Qualifying(ev'.preds, X)
                  /\ \/ X \notin DOMAIN lastAlerts
                     \/ now' - lastAlerts[X] > cooldownPeriod]_vars

\* C3: one detection pass creates at most one alert per class, however many
\* qualifying detections of that class its list holds.
C3_AtMostOneAlertPerClassPerPass ==
    IsPass(ev) => \A X \in Classes : CreatedCount(ev, X) <= 1

\* C4: the ids of the alerts in the active set are pairwise distinct.
C4_AlertIdsDistinct ==
    \A i, j \in 1..Len(alerts) : i # j => alerts[i].id # alerts[j].id

\* C6: with detection running, a pass over [car 0.9] on an empty cooldown
\* table at time T creates one "car" alert and leaves the table {car: T};
\* the same list 1000 ms after the last "car" alert creates no alert; the
\* same list 3500 ms or more after it creates a new alert.
C6_CarScenario ==
    [][(IsPass(ev') /\ detecting /\ ev'.preds = <<Pred("car", 90)>>) =>
          /\ lastAlerts = EmptyTable =>
                /\ ev'.created = <<"car">>
                /\ lastAlerts' = SetLastAlert(EmptyTable, "car", now')
          /\ (DOMAIN lastAlerts = {"car"} /\ now' - lastAlerts["car"] = 1000)
                => ev'.created = <<>>
          /\ (DOMAIN lastAlerts = {"car"} /\ now' - lastAlerts["car"] >= 3500)
                => ev'.created = <<"car">>]_vars

----------------------------------------------------------------------------
(* C5: the display duration *)

\* how many times alert a occurs in the alert list list
Occurrences(list, a) == Cardinality({ i \in 1..Len(list) : list[i] = a })

\* no alert is in the set later than 2000 ms after its creation, and at
\* that instant only while its own expiry timeout is still to run; the
\* latest alert of every class is in the set until then
ShownWhileYoung ==
    /\ \A i \in 1..Len(alerts) :
          /\ now <= alerts[i].id + DisplayDuration
          /\ now = alerts[i].id + DisplayDuration
                => \E j \in DueTimers : timers[j].id = alerts[i].id
    /\ \A X \in DOMAIN lastAlerts :
          now < lastAlerts[X] + DisplayDuration
              => Occurrences(alerts, NewAlert(X, lastAlerts[X])) >= 1

\* a step removes an alert from the set only 2000 ms after its creation
RemovedOnlyWhenExpired ==
    \A i \in 1..Len(alerts) :
        Occurrences(alerts', alerts[i]) < Occurrences(alerts, alerts[i])
            => now = alerts[i].id + DisplayDuration

\* C5: while the component is mounted, an alert created at time T (its id)
\* is in the active set throughout [T, T + 2000 ms) and out of it once its
\* timeout has run at T + 2000 ms; no other timeout removes it earlier.
C5_AlertShownForDisplayDuration ==
    /\ [](mounted => ShownWhileYoung)
    /\ [][RemovedOnlyWhenExpired]_vars

\* an expiry has just removed an alert and left a younger one in the set
C5_Witness ==
    /\ mounted
    /\ ev.kind = "expire"
    /\ alerts # <<>>
    /\ \E X \in DOMAIN lastAlerts : lastAlerts[X] + DisplayDuration <= now

----------------------------------------------------------------------------
(* C7 - C10: failures, skipped ticks and stopping *)

\* C7: once the model load has failed, the model handle is unset, the
\* start/stop button is disabled, detecting is false, there is no polling
\* interval, and no detect call is made or in flight.
C7_LoadFailureDisablesDetection ==
    loadState = "failed" =>
        /\ model = NoModel
        /\ StartStopDisabled(model)
        /\ ~detecting
        /\ ~interval.live
        /\ inflight = <<>>
        /\ ev.kind \notin {"tick", "tick-notready", "pass", "reject", "toggle"}

\* the load failed, and time has passed and the camera was switched since
C7_Witness ==
    /\ loadState = "failed"
    /\ now > StartTime
    /\ facingMode = "user"

\* C8: a step in which model.detect rejects creates no alert, leaves the
\* cooldown table, the active alerts, the expiry timeouts and the canvas
\* unchanged, starts no new detect call, and leaves the polling interval
\* as it was.
C8_RejectedDetectAbandonsTick ==
    [][ev'.kind = "reject" =>
          /\ alerts' = alerts
          /\ lastAlerts' = lastAlerts
          /\ timers' = timers
          /\ canvas' = canvas
          /\ Len(inflight') = Len(inflight) - 1
          /\ interval' = interval]_vars

\* a detect call has just rejected while detection is on and alerts exist
C8_Witness ==
    /\ ev.kind = "reject"
    /\ detecting /\ mounted /\ interval.live
    /\ alerts # <<>>

\* C9: a poll tick that finds the video not ready does not call model.detect,
\* leaves alerts, cooldown table, expiry timeouts and canvas unchanged, and
\* leaves the polling interval live.
C9_NotReadyTickIsNoOp ==
    [][ev'.kind = "tick-notready" =>
          /\ inflight' = inflight
          /\ alerts' = alerts
          /\ lastAlerts' = lastAlerts
          /\ timers' = timers
          /\ canvas' = canvas
          /\ interval'.live]_vars

\* a tick has just found the video not ready, after a pass that alerted
C9_Witness ==
    /\ ev.kind = "tick-notready"
    /\ alerts # <<>>
    /\ canvas # <<>>

\* C10: whenever detection is off or the component is unmounted there is
\* no polling interval, and every poll tick starts in a state in which the
\* component is mounted with detection on.
C10_StopCancelsPolling ==
    /\ [](~(detecting /\ mounted) => ~interval.live)
    /\ [][IsTick(ev') => (detecting /\ mounted /\ model # NoModel)]_vars

\* detection ran, was toggled off, and time has passed without a tick
C10_Witness ==
    /\ mounted /\ ~detecting
    /\ lastAlerts # EmptyTable
    /\ ev.kind = "advance"
    /\ ~interval.live

----------------------------------------------------------------------------
(* C11: overlapping detect calls *)

\* C11: at most one model.detect call is in flight in every state.
C11_AtMostOneDetectInFlight == Len(inflight) <= 1

----------------------------------------------------------------------------
(* C13: what changes the cooldown table *)

\* the table changes only in a pass that creates an alert; such a pass sets
\* the entries of the alerting classes to the current time and no other;
\* no entry is removed or decreased; every key is a hazard class
TableFrame ==
    /\ lastAlerts' # lastAlerts => (IsPass(ev') /\ ev'.created # <<>>)
    /\ DOMAIN lastAlerts \subseteq DOMAIN lastAlerts'
    /\ DOMAIN lastAlerts' \subseteq HazardClasses
    /\ \A X \in DOMAIN lastAlerts' :
          IF CreatedFor(ev', X) /\ IsPass(ev')
          THEN lastAlerts'[X] = now'
          ELSE X \in DOMAIN lastAlerts /\ lastAlerts'[X] = lastAlerts[X]
    /\ \A X \in DOMAIN lastAlerts : lastAlerts'[X] >= lastAlerts[X]

\* a pass whose detections are all of classes alerted 3000 ms ago or less
\* leaves the table unchanged
SuppressedLeavesTable ==
    (IsPass(ev') /\ \A i \in 1..Len(ev'.preds) :
                        LET X == ev'.preds[i].class
                        IN X \in DOMAIN lastAlerts
                              /\ now' - lastAlerts[X] <= cooldownPeriod)
        => lastAlerts' = lastAlerts

\* the part of C13 that does not depend on which detections are suppressed
C13_TableFrameOnly == [][TableFrame]_vars

\* C13: the cooldown table changes only in a step that creates an alert,
\* which sets only the alerting class's entry to the current time; a
\* detection within 3000 ms of its class's last alert, a non-hazard or
\* low-score detection, an expiry and the toggles leave it unchanged;
\* entries are never removed or decreased and every key is a hazard class.
C13_TableChangesOnlyOnAlert == [][TableFrame /\ SuppressedLeavesTable]_vars

----------------------------------------------------------------------------
(* C15: what an expiry timeout changes *)

\* C15: an expiry timeout that fires removes exactly one alert, the one it
\* was scheduled for, and changes nothing else.
C15_ExpiryRemovesOnlyItsAlert ==
    [][(ev'.kind = "expire" /\ mounted) =>
          /\ Len(alerts') = Len(alerts) - 1
          /\ \A i \in 1..Len(alerts') :
                Occurrences(alerts', alerts'[i]) <= Occurrences(alerts, alerts'[i])
          /\ lastAlerts' = lastAlerts
          /\ detecting' = detecting
          /\ interval' = interval]_vars

----------------------------------------------------------------------------
(* C20: alerts per class *)

\* the active alerts for class X
AlertsFor(X) ==
    { i \in 1..Len(alerts) : alerts[i].message = NewAlert(X, 0).message }

\* C20: the active set holds at most one alert per hazard class, hence at
\* most six alerts.
C20_AtMostOneActiveAlertPerClass ==
    /\ \A X \in HazardClasses : Cardinality(AlertsFor(X)) <= 1
    /\ Len(alerts) <= Cardinality(HazardClasses)

----------------------------------------------------------------------------
(* C12: the canvas after a pass *)

\* C12: after a completed detection pass the canvas holds one rectangle
\* and label per detection of that pass's list, in list order, and nothing
\* else; a detection is drawn in the hazard colour exactly when its class
\* is a hazard class; a non-hazard detection creates no alert and is drawn
\* in the other colour.
C12_CanvasShowsExactlyThePass ==
    [][IsPass(ev') =>
          /\ Len(canvas') = Len(ev'.preds)
          /\ \A i \in 1..Len(ev'.preds) :
                /\ canvas'[i].class = ev'.preds[i].class
                /\ canvas'[i].label = ev'.preds[i].score
                /\ canvas'[i].colour = "#ff0000"
                      <=> ev'.preds[i].class \in HazardClasses
                /\ ev'.preds[i].class \notin HazardClasses
                      => /\ canvas'[i].colour = "#00ff00"
                         /\ ~CreatedFor(ev', ev'.preds[i].class)]_vars

\* a pass over [dog 0.95] has just drawn one green box and created no
\* alert, after an earlier pass had drawn and alerted
C12_Witness ==
    /\ IsPass(ev)
    /\ ev.preds = <<Pred("dog", 95)>>
    /\ ev.created = <<>>
    /\ Len(canvas) = 1 /\ canvas[1].colour = "#00ff00"
    /\ alerts # <<>>

----------------------------------------------------------------------------
(* C14: classes do not interfere *)

\* C14: a qualifying detection of class X whose own cooldown entry is
\* absent or older than 3000 ms creates an alert, whatever alerts are
\* active and whatever cooldowns are running for other classes.
C14_OtherClassesNeverSuppress ==
    [][IsPass(ev') =>
          \A X \in HazardClasses :
              (/\ Qualifying(ev'.preds, X)
               /\ \/ X \notin DOMAIN lastAlerts
                  \/ now' - lastAlerts[X] > cooldownPeriod)
                  => CreatedFor(ev', X)]_vars

\* a "person" alert has just been created while a "car" alert is active
\* and the cooldown of "car" is running and suppressed the car detection
C14_Witness ==
    /\ IsPass(ev)
    /\ ev.created = <<"person">>
    /\ ev.preds = <<Pred("car", 90), Pred("person", 90)>>
    /\ "car" \in DOMAIN lastAlerts
    /\ lastAlerts["car"] < now
    /\ now - lastAlerts["car"] <= cooldownPeriod
    /\ AlertsFor("car") # {}
    /\ AlertsFor("person") # {}

----------------------------------------------------------------------------
(* C17: the two toggles *)

\* a camera toggle flips the facing, so that a second toggle restores it,
\* and changes nothing else
CameraToggleFrame ==
    ev'.kind = "camera" =>
        /\ facingMode' # facingMode
        /\ FlipFacing(facingMode') = facingMode
        /\ UNCHANGED <<speechSynthesis, now, loadState, model, detecting, alerts, lastAlerts,
                       mounted, interval, inflight, timers, canvas>>

\* C17: facingMode starts as "environment" and is always "environment" or
\* "user"; the feed is mirrored exactly when it is "user"; a camera toggle
\* flips it and changes nothing else, two toggles restore it; a detection
\* toggle leaves it unchanged.
C17_TogglesAreIndependent ==
    /\ facingMode = "environment"
    /\ [](/\ facingMode \in {"environment", "user"}
          /\ WebcamProps(facingMode).videoConstraints.facingMode = facingMode
          /\ WebcamProps(facingMode).mirrored <=> facingMode = "user")
    /\ [][CameraToggleFrame]_vars
    /\ [][ev'.kind = "toggle" => facingMode' = facingMode]_vars

\* the camera has just been toggled back to "environment" while detection
\* is on and an alert is active
C17_Witness ==
    /\ ev.kind = "camera"
    /\ facingMode = "environment"
    /\ detecting /\ interval.live
    /\ alerts # <<>>

----------------------------------------------------------------------------
(* C18: the polling interval *)

\* the number of live polling intervals: the effect holds one interval
\* binding, which its cleanup clears before the effect runs again
LiveIntervals == IF interval.live THEN 1 ELSE 0

----------------------------------------------------------------------------
(* C19: after detection is stopped *)

\* a step changes what a detection pass writes
PassEffect ==
    \/ ev'.created # <<>>
    \/ lastAlerts' # lastAlerts
    \/ canvas' # canvas

\* C19 as claimed: while detection is off, no step creates an alert, updates
\* the cooldown table or redraws the canvas.
C19_NoPassEffectWhileStopped ==
    [][(~detecting /\ mounted) => ~PassEffect]_vars

\* C19 as amended: while detection is off no poll tick and no model.detect
\* call starts, and the only steps that create an alert, update the cooldown
\* table or redraw the canvas are the passes of calls already in flight.
C19_OnlyInFlightPassesWhileStopped ==
    [][(~detecting /\ mounted) =>
          /\ ~IsTick(ev')
          /\ Len(inflight') <= Len(inflight)
          /\ PassEffect => (/\ ev'.kind = "pass"
                            /\ Len(inflight') = Len(inflight) - 1)]_vars

\* a call that was in flight when detection was stopped has just resolved
\* and created an alert
C19_Witness ==
    /\ ~detecting /\ mounted /\ ~interval.live
    /\ IsPass(ev)
    /\ ev.created # <<>>
    /\ canvas # <<>>

----------------------------------------------------------------------------
(* C16: the spoken announcement *)

\* the announcements for the alerts a step created
Announcements(e) == [i \in 1..Len(e.created) |-> Utterance(e.created[i])]

\* the pass just taken changed alerts, cooldown table and expiry timeouts
\* exactly as it would have in a browser with the opposite speech capability
SameWithoutSpeech ==
    \E i \in 1..Len(inflight) :
        LET other == DetectPassWith(inflight[i], ev'.preds, ~speechSynthesis)
        IN /\ inflight' = RemoveAt(inflight, i)
           /\ alerts' = other.alerts
           /\ lastAlerts' = other.lastAlerts
           /\ timers' = other.timers
           /\ ev'.created = other.created

\* C16: with speech synthesis present a pass speaks "Alert: {class}
\* detected" once per alert it creates and nothing else, without it nothing
\* is spoken; no other step speaks; and every pass changes alerts, cooldown
\* table and expiry timeouts as it would with the opposite capability.
C16_SpeechFollowsAlertsOnly ==
    /\ [][IsPass(ev') =>
             /\ ev'.spoken = IF speechSynthesis THEN Announcements(ev')
                             ELSE <<>>
             /\ SameWithoutSpeech]_vars
    /\ [][ev'.kind # "pass" => ev'.spoken = <<>>]_vars
    /\ [][speechSynthesis' = speechSynthesis]_vars

\* a pass has just created and announced a "person" alert while the "car"
\* detection of the same list was suppressed and not announced
C16_Witness ==
    /\ IsPass(ev)
    /\ speechSynthesis
    /\ ev.preds = <<Pred("car", 90), Pred("person", 90)>>
    /\ ev.created = <<"person">>
    /\ ev.spoken = <<Utterance("person")>>

====
